---- MODULE Spec2Model ----
(***************************************************************************)
(* Model of braingu/realtime-sync.                                         *)
(*                                                                         *)
(* Two state machines share this module:                                   *)
(*   Spec     - the room manager of sync-whiteboard (rooms map, creation   *)
(*              mutex, getOrCreateRoom, the 2 s persistence timer and the  *)
(*              engine callbacks onSessionRemoved / onDataChange);         *)
(*   SpecRoom - SyncRoom of sync-core (sockets map, presence map, connect, *)
(*              broadcast, updatePresence and the socket handlers).        *)
(*                                                                         *)
(* The JavaScript event loop is modelled as it schedules the code: a       *)
(* macrotask (a request, a timer tick, an I/O completion, a socket event)  *)
(* runs only when no promise reaction (microtask) is pending.              *)
(***************************************************************************)
EXTENDS Integers, Sequences, FiniteSets, TLC

(* ------------------------------ bounds ---------------------------------- *)
MaxCalls == 2
MaxDoc == 1
MaxWrites == 2
MaxQueueCalls == 3
MaxFlushDoc == 2

MaxSockets == 2
MaxInbox == 2

RoomIds == {"r1", "r2"}
RoomOrder == <<"r1", "r2">>
NotFound == -1
Undefined == "undefined"

\* Session ids; "c" never connects a socket (presence may be updated for a
\* session the room does not track).
SessionIds == {"a", "b", "c"}
ConnectIds == {"a", "b"}
\* Message strings are sequences of tokens; a frame from a client is one token.
Msgs == {<<"m1">>, <<"m2">>}
Payloads == {"p1", "p2"}
SocketIds == 1..MaxSockets

VARIABLES
    rooms,      \* server.ts:254  roomId -> index of its RoomState (0: no entry)
    engines,    \* the RoomState objects ever constructed, in construction order:
                \*   id, needsPersist; closed, numSessions, doc of its TLSocketRoom
    calls,      \* the getOrCreateRoom calls, in the order they chained on mutex:
                \*   rid   the roomId argument
                \*   st    queued -> [reading ->] settled -> returned -> connected
                \*                                         or thrown
                \*   err   the value the step's promise settled with is an error
                \*   res   the room the call returned
                \*   found what the step found in rooms (none, open, closed), a
                \*         local of the call: unset before the step and once the
                \*         route handler is done with the call
    disk,       \* room-data/<roomId>.json: the stored snapshot, or NotFound
    writes,     \* writeFile calls in flight (no two are ever equal)
    sockets,    \* index.ts:96   Map sessionId -> socket, in insertion order
    presence,   \* index.ts:102  sessionId -> payload
    sock,       \* per socket: connection state, session id its handlers hold
    inbox,      \* per socket: what send() was called with, in order
    ret         \* what the last presence read returned to its caller:
                \*   op   none, getPresence, getAllPresence
                \*   val  the payload getPresence returned (or Undefined)
                \*   ref  the Map getAllPresence returned: "own" a Map of its
                \*        own, "room" the room's presence Map itself
                \*   map  the entries of a returned Map of its own
                \*   mutated  the caller has changed the returned Map

serverVars == <<rooms, engines, calls, disk, writes>>
roomVars == <<sockets, presence, sock, inbox, ret>>
vars == <<rooms, engines, calls, disk, writes, sockets, presence, sock, inbox, ret>>

(* ------------------------- room manager (server.ts) --------------------- *)

EngineIds == 1..Len(engines)
CallIds == 1..Len(calls)

\* roomState.room.isClosed()
isClosed(i) == engines[i].closed

\* Variant of HasOpenRoom that takes any entry, closed or not, as the room.
HasOpenRoomAnyEntry(r) == rooms[r] # 0

\* rooms.has(roomId) && !roomState.room.isClosed()
HasOpenRoom(r) == rooms[r] # 0 /\ ~isClosed(rooms[r])

\* Variant of ChainReady without the chain: every step starts at once.
ChainReadyNoMutex(c) == TRUE

\* The promise `mutex` held when call c chained on it has settled and the
\* reactions registered on it before c's step (the previous caller's await)
\* have run.

ChainReady(c) ==
    IF c = 1 THEN TRUE ELSE calls[c - 1].st \in {"returned", "connected", "thrown"}

\* A promise reaction is queued: a caller's continuation after `await mutex`,
\* the route handler's continuation after `await getOrCreateRoom`, or the
\* next step of the chain.
MicrotaskPending ==
    \E c \in CallIds :
        \/ calls[c].st \in {"settled", "returned"}
        \/ calls[c].st = "queued" /\ ChainReady(c)

\* saveSnapshot up to its await: getCurrentSnapshot() then writeFile started.
saveSnapshot(ws, i, kind) ==
    ws \cup {[rid |-> engines[i].id, snap |-> engines[i].doc,
               inst |-> i, kind |-> kind]}

\* A websocket request for room r: the route handler calls getOrCreateRoom,
\* whose synchronous part chains a step on mutex and awaits it.
Request(r, limit) ==
    /\ ~MicrotaskPending
    /\ Len(calls) < limit
    /\ calls' = Append(calls,
           [rid |-> r, st |-> "queued", err |-> FALSE, res |-> 0, found |-> "unset"])
    /\ UNCHANGED <<rooms, engines, disk, writes, roomVars>>

getOrCreateRoom(r) == Request(r, MaxCalls)

\* Variant of StepStart for a chain without the catch: the rejection of the
\* previous step is passed on and the step's own body does not run.
StepStartPoisoned(c) ==
    /\ c \in CallIds
    /\ calls[c].st = "queued"
    /\ ChainReady(c)
    /\ calls' = IF c > 1 /\ calls[c - 1].err
                THEN [calls EXCEPT ![c].st = "settled", ![c].err = TRUE]
                ELSE [calls EXCEPT
                        ![c].st = IF HasOpenRoom(calls[c].rid)
                                  THEN "settled" ELSE "reading",
                        ![c].found = IF HasOpenRoom(calls[c].rid) THEN "open"
                                     ELSE IF rooms[calls[c].rid] # 0 THEN "closed"
                                     ELSE "none"]
    /\ UNCHANGED <<rooms, engines, disk, writes, roomVars>>

\* The step's body up to `await readSnapshotIfExists(roomId)`.
StepStart(c) ==
    /\ c \in CallIds
    /\ calls[c].st = "queued"
    /\ ChainReady(c)
    /\ calls' = [calls EXCEPT
                    ![c].st = IF HasOpenRoom(calls[c].rid) THEN "settled" ELSE "reading",
                    ![c].found = IF HasOpenRoom(calls[c].rid) THEN "open"
                                 ELSE IF rooms[calls[c].rid] # 0 THEN "closed"
                                 ELSE "none"]
    /\ UNCHANGED <<rooms, engines, disk, writes, roomVars>>

\* readSnapshotIfExists returned (data or undefined on ENOENT); the room is
\* constructed and registered.
ReadOk(c) ==
    /\ c \in CallIds
    /\ calls[c].st = "reading"
    /\ ~MicrotaskPending
    /\ LET r == calls[c].rid
           initialSnapshot == disk[r]
       IN  /\ engines' = Append(engines,
                   [id |-> r, closed |-> FALSE, needsPersist |-> FALSE,
                    numSessions |-> 0,
                    doc |-> IF initialSnapshot = NotFound THEN 0 ELSE initialSnapshot])
           /\ rooms' = [rooms EXCEPT ![r] = Len(engines) + 1]
    /\ calls' = [calls EXCEPT ![c].st = "settled"]
    /\ UNCHANGED <<disk, writes, roomVars>>

\* Variant of ReadFail whose catch swallows the error.
ReadFailSwallowed(c) ==
    /\ c \in CallIds
    /\ calls[c].st = "reading"
    /\ ~MicrotaskPending
    /\ calls' = [calls EXCEPT ![c].st = "settled"]
    /\ UNCHANGED <<rooms, engines, disk, writes, roomVars>>

\* readSnapshotIfExists threw (I/O error other than ENOENT, or JSON.parse);
\* the chain's catch turns the error into the step's value.
ReadFail(c) ==
    /\ c \in CallIds
    /\ calls[c].st = "reading"
    /\ ~MicrotaskPending
    /\ calls' = [calls EXCEPT ![c].st = "settled", ![c].err = TRUE]
    /\ UNCHANGED <<rooms, engines, disk, writes, roomVars>>

\* The caller resumes after `await mutex` (an earlier caller's route handler,
\* queued before, has resumed by then).
Return(c) ==
    /\ c \in CallIds
    /\ calls[c].st = "settled"
    /\ ~\E d \in CallIds : calls[d].st = "returned"
    /\ calls' = [calls EXCEPT
                    ![c].st = IF calls[c].err \/ rooms[calls[c].rid] = 0
                              THEN "thrown" ELSE "returned",
                    ![c].res = IF calls[c].err THEN 0 ELSE rooms[calls[c].rid],
                    ![c].found = IF calls[c].err \/ rooms[calls[c].rid] = 0
                                 THEN "unset" ELSE @]
    /\ UNCHANGED <<rooms, engines, disk, writes, roomVars>>

\* The route handler resumes with the room and connects its socket (the next
\* step of the chain, queued before, has started by then).
handleSocketConnect(c) ==
    /\ c \in CallIds
    /\ calls[c].st = "returned"
    /\ ~(c + 1 \in CallIds /\ calls[c + 1].st = "queued")
    /\ calls' = [calls EXCEPT ![c].st = "connected", ![c].found = "unset"]
    /\ engines' = [engines EXCEPT ![calls[c].res].numSessions = @ + 1]
    /\ UNCHANGED <<rooms, disk, writes, roomVars>>

\* Variant of onSessionRemoved that closes the room without the final save.
onSessionRemovedNoSave(i) ==
    /\ i \in EngineIds
    /\ ~MicrotaskPending
    /\ engines[i].numSessions > 0
    /\ engines' = [engines EXCEPT ![i].numSessions = @ - 1,
                                  ![i].closed = (engines[i].numSessions = 1)]
    /\ UNCHANGED <<rooms, calls, disk, writes, roomVars>>

\* The engine dropped a session and calls onSessionRemoved.
onSessionRemoved(i) ==
    /\ i \in EngineIds
    /\ ~MicrotaskPending
    /\ engines[i].numSessions > 0
    /\ LET numSessionsRemaining == engines[i].numSessions - 1
       IN  IF numSessionsRemaining = 0
           THEN /\ Cardinality(writes) < MaxWrites
                /\ writes' = saveSnapshot(writes, i, "final")
                /\ engines' = [engines EXCEPT ![i].numSessions = 0,
                                              ![i].closed = TRUE]
           ELSE /\ writes' = writes
                /\ engines' = [engines EXCEPT ![i].numSessions = numSessionsRemaining]
    /\ UNCHANGED <<rooms, calls, disk, roomVars>>

\* The engine's document changed and it calls onDataChange.
Change(i, limit) ==
    /\ i \in EngineIds
    /\ ~MicrotaskPending
    /\ ~isClosed(i)
    /\ engines[i].numSessions > 0       \* changes come from connected clients
    /\ engines[i].doc < limit
    /\ engines' = [engines EXCEPT ![i].doc = @ + 1, ![i].needsPersist = TRUE]
    /\ UNCHANGED <<rooms, calls, disk, writes, roomVars>>

onDataChange(i) == Change(i, MaxDoc)

\* The timer callback's flush of the entries of rooms, in order.
RECURSIVE TickWrites(_, _)
TickWrites(ws, k) ==
    IF k > Len(RoomOrder) THEN ws
    ELSE LET i == rooms[RoomOrder[k]]
         IN  TickWrites(IF i # 0 /\ engines[i].needsPersist
                        THEN saveSnapshot(ws, i, "tick") ELSE ws, k + 1)

Registered == {rooms[r] : r \in RoomIds} \ {0}

\* Variant of Tick that flushes every entry, dirty or not.
RECURSIVE TickWritesAll(_, _)
TickWritesAll(ws, k) ==
    IF k > Len(RoomOrder) THEN ws
    ELSE LET i == rooms[RoomOrder[k]]
         IN  TickWritesAll(IF i # 0 THEN saveSnapshot(ws, i, "tick") ELSE ws, k + 1)

TickFlushAll ==
    /\ ~MicrotaskPending
    /\ Cardinality(TickWritesAll(writes, 1)) <= MaxWrites
    /\ writes' = TickWritesAll(writes, 1)
    /\ engines' = [i \in EngineIds |->
                     IF i \in Registered
                     THEN [engines[i] EXCEPT !.needsPersist = FALSE]
                     ELSE engines[i]]
    /\ rooms' = [r \in RoomIds |->
                   IF rooms[r] # 0 /\ isClosed(rooms[r]) THEN 0 ELSE rooms[r]]
    /\ UNCHANGED <<calls, disk, roomVars>>

\* Variant of Tick that reaps the entries it flushed instead of the closed ones.
TickReapsFlushed ==
    /\ ~MicrotaskPending
    /\ Cardinality(TickWrites(writes, 1)) <= MaxWrites
    /\ writes' = TickWrites(writes, 1)
    /\ engines' = [i \in EngineIds |->
                     IF i \in Registered
                     THEN [engines[i] EXCEPT !.needsPersist = FALSE]
                     ELSE engines[i]]
    /\ rooms' = [r \in RoomIds |->
                   IF rooms[r] # 0 /\ engines[rooms[r]].needsPersist
                   THEN 0 ELSE rooms[r]]
    /\ UNCHANGED <<calls, disk, roomVars>>

\* The first registry entry, in scan order, whose needsPersist is set (0: none).
FirstDirty ==
    LET D == {k \in 1..Len(RoomOrder) :
                 rooms[RoomOrder[k]] # 0 /\ engines[rooms[RoomOrder[k]]].needsPersist}
    IN  IF D = {} THEN 0
        ELSE rooms[RoomOrder[CHOOSE k \in D : \A j \in D : k <= j]]

\* Variant of Tick whose scan for dirty rooms stops at the first flush it
\* starts.
TickFirstOnly ==
    /\ ~MicrotaskPending
    /\ writes' = IF FirstDirty = 0 THEN writes
                 ELSE saveSnapshot(writes, FirstDirty, "tick")
    /\ Cardinality(writes') <= MaxWrites
    /\ engines' = [i \in EngineIds |->
                     IF i = FirstDirty
                     THEN [engines[i] EXCEPT !.needsPersist = FALSE]
                     ELSE engines[i]]
    /\ rooms' = [r \in RoomIds |->
                   IF rooms[r] # 0 /\ isClosed(rooms[r]) THEN 0 ELSE rooms[r]]
    /\ UNCHANGED <<calls, disk, roomVars>>

\* setInterval callback.
Tick ==
    /\ ~MicrotaskPending
    /\ Cardinality(TickWrites(writes, 1)) <= MaxWrites
    /\ writes' = TickWrites(writes, 1)
    /\ engines' = [i \in EngineIds |->
                     IF i \in Registered
                     THEN [engines[i] EXCEPT !.needsPersist = FALSE]
                     ELSE engines[i]]
    /\ rooms' = [r \in RoomIds |->
                   IF rooms[r] # 0 /\ isClosed(rooms[r]) THEN 0 ELSE rooms[r]]
    /\ UNCHANGED <<calls, disk, roomVars>>

\* Variant of WriteOk in which the completed write clears needsPersist.
WriteOkClearsFlag(w) ==
    /\ w \in writes
    /\ ~MicrotaskPending
    /\ disk' = [disk EXCEPT ![w.rid] = w.snap]
    /\ writes' = writes \ {w}
    /\ engines' = [engines EXCEPT ![w.inst].needsPersist = FALSE]
    /\ UNCHANGED <<rooms, calls, roomVars>>

\* writeFile resolved.
WriteOk(w) ==
    /\ w \in writes
    /\ ~MicrotaskPending
    /\ disk' = [disk EXCEPT ![w.rid] = w.snap]
    /\ writes' = writes \ {w}
    /\ UNCHANGED <<rooms, engines, calls, roomVars>>

\* writeFile rejected; saveSnapshot's catch logs the error.
WriteFail(w) ==
    /\ w \in writes
    /\ ~MicrotaskPending
    /\ writes' = writes \ {w}
    /\ UNCHANGED <<rooms, engines, calls, disk, roomVars>>

Init ==
    /\ rooms = [r \in RoomIds |-> 0]
    /\ engines = <<>>
    /\ calls = <<>>
    /\ disk = [r \in RoomIds |-> NotFound]
    /\ writes = {}
    /\ sockets = <<>>
    /\ presence = <<>>
    /\ sock = [k \in SocketIds |-> [st |-> "new", sid |-> "none"]]
    /\ inbox = [k \in SocketIds |-> <<>>]
    /\ ret = [op |-> "none", val |-> Undefined, ref |-> "own", map |-> <<>>,
              mutated |-> FALSE]

Next ==
    \/ \E r \in RoomIds : getOrCreateRoom(r)
    \/ \E c \in CallIds : StepStart(c)
    \/ \E c \in CallIds : ReadOk(c)
    \/ \E c \in CallIds : ReadFail(c)
    \/ \E c \in CallIds : Return(c)
    \/ \E c \in CallIds : handleSocketConnect(c)
    \/ \E i \in EngineIds : onSessionRemoved(i)
    \/ \E i \in EngineIds : onDataChange(i)
    \/ Tick
    \/ \E w \in writes : WriteOk(w)
    \/ \E w \in writes : WriteFail(w)

Spec == Init /\ [][Next]_vars

\* The creation queue alone, with one more request: the server while no
\* client changes a document or leaves (the timer callback then finds
\* nothing to flush or remove).
getOrCreateRoomQueued(r) == Request(r, MaxQueueCalls)

NextQueue ==
    \/ \E r \in RoomIds : getOrCreateRoomQueued(r)
    \/ \E c \in CallIds : StepStart(c)
    \/ \E c \in CallIds : ReadOk(c)
    \/ \E c \in CallIds : ReadFail(c)
    \/ \E c \in CallIds : Return(c)
    \/ \E c \in CallIds : handleSocketConnect(c)

SpecQueue == Init /\ [][NextQueue]_vars

\* The creation queue under the scheduling of the event loop: a queued
\* promise reaction runs, and every storage read terminates (with data, with
\* ENOENT or with an error).
SpecQueueLive ==
    /\ Init
    /\ [][NextQueue]_vars
    /\ WF_vars(\E c \in CallIds : StepStart(c))
    /\ WF_vars(\E c \in CallIds : ReadOk(c) \/ ReadFail(c))
    /\ WF_vars(\E c \in CallIds : Return(c))
    /\ WF_vars(\E c \in CallIds : handleSocketConnect(c))

\* The room manager serving one roomId, with a document that changes once
\* more, so that a change can arrive after a tick has flushed an earlier one.
FlushRoomIds == {"r1"}

onDataChangeAgain(i) == Change(i, MaxFlushDoc)

NextFlush ==
    \/ \E r \in FlushRoomIds : getOrCreateRoom(r)
    \/ \E c \in CallIds : StepStart(c)
    \/ \E c \in CallIds : ReadOk(c)
    \/ \E c \in CallIds : ReadFail(c)
    \/ \E c \in CallIds : Return(c)
    \/ \E c \in CallIds : handleSocketConnect(c)
    \/ \E i \in EngineIds : onSessionRemoved(i)
    \/ \E i \in EngineIds : onDataChangeAgain(i)
    \/ Tick
    \/ \E w \in writes : WriteOk(w)
    \/ \E w \in writes : WriteFail(w)

SpecFlush == Init /\ [][NextFlush]_vars

(* ----------------------- properties of the room manager ----------------- *)

Done(c) == calls[c].st \in {"returned", "connected"}

LiveEngines(r) == {i \in EngineIds : engines[i].id = r /\ ~isClosed(i)}

NewWrites == writes' \ writes

FinalWrite(i) == [rid |-> engines[i].id, snap |-> engines[i].doc,
                  inst |-> i, kind |-> "final"]

\* C1: concurrent getOrCreateRoom calls for a roomId without a live entry
\* construct exactly one engine and all get that instance: no roomId ever has
\* two engines that are not closed, and two calls for the same roomId return
\* different rooms only when the earlier call's room has closed since.
C1_OneEnginePerRoom ==
    /\ \A r \in RoomIds : Cardinality(LiveEngines(r)) <= 1
    /\ \A c \in CallIds : \A d \in CallIds :
          (c < d /\ Done(c) /\ Done(d) /\ calls[c].rid = calls[d].rid
                 /\ calls[c].res # calls[d].res)
          => isClosed(calls[c].res)

\* Two calls for the same roomId overlapped (the second chained while the
\* first was reading its snapshot), one engine exists, the first caller has it
\* and the second caller's step found it.
C1_Witness ==
    \E c \in CallIds : \E d \in CallIds :
        /\ c < d
        /\ calls[c].rid = calls[d].rid
        /\ calls[c].st = "returned"
        /\ calls[d].st = "settled" /\ calls[d].found = "open"
        /\ Cardinality({i \in EngineIds : engines[i].id = calls[c].rid}) = 1
        /\ rooms[calls[d].rid] = calls[c].res

\* C2: getOrCreateRoom never returns a Closed room: at the moment a call
\* resolves, the room it returns is the registry entry of its roomId and is
\* not closed; when its step found a closed entry, the returned room is a
\* new one constructed after that entry's room.
C2_NeverReturnsClosed ==
    \A c \in CallIds :
        calls[c].st = "returned" =>
            /\ calls[c].res \in EngineIds
            /\ ~isClosed(calls[c].res)
            /\ rooms[calls[c].rid] = calls[c].res
            /\ engines[calls[c].res].id = calls[c].rid
            /\ calls[c].found = "closed" =>
                  \E i \in EngineIds :
                      /\ i < calls[c].res
                      /\ engines[i].id = calls[c].rid
                      /\ isClosed(i)

\* A call whose step found a closed room in the registry has resolved.
C2_Witness ==
    \E c \in CallIds : calls[c].st = "returned" /\ calls[c].found = "closed"

\* C3, state part: a step that settled with an error is thrown to its caller
\* with no room, nothing else is thrown, and the next call for the same
\* roomId after a failed one does not find an open room: it reads again.
C3_State ==
    /\ \A c \in CallIds :
          /\ (calls[c].err /\ calls[c].st # "settled")
               => (calls[c].st = "thrown" /\ calls[c].res = 0)
          /\ calls[c].st = "thrown" => calls[c].err
    /\ \A c \in CallIds : \A d \in CallIds :
          (/\ c < d
           /\ calls[c].rid = calls[d].rid
           /\ calls[c].err
           /\ \A e \in (c + 1)..(d - 1) : calls[e].rid # calls[c].rid
           /\ calls[d].found # "unset")
          => calls[d].found \in {"none", "closed"}

\* C3, step part: a read that ends either fails, and then registers and
\* constructs nothing, or constructs one room from what is on disk (from no
\* snapshot when the file is not found) and registers it.
C3_Step ==
    \A c \in CallIds :
        (calls[c].st = "reading" /\ calls'[c].st = "settled") =>
            IF calls'[c].err
            THEN rooms' = rooms /\ engines' = engines
            ELSE /\ Len(engines') = Len(engines) + 1
                 /\ rooms' = [rooms EXCEPT ![calls[c].rid] = Len(engines')]
                 /\ engines'[Len(engines')].doc =
                        (IF disk[calls[c].rid] = NotFound THEN 0 ELSE disk[calls[c].rid])
                 /\ ~engines'[Len(engines')].closed

\* C3: a snapshot read that fails (other than not-found) is thrown to that
\* caller, registers no room, and a later call for the roomId reads afresh; a
\* not-found read creates the room without a snapshot.
C3_RestorationError == []C3_State /\ [][C3_Step]_vars

\* A call failed and the next call for the same roomId read again and
\* resolved.
C3_Witness ==
    \E c \in CallIds : \E d \in CallIds :
        /\ c < d
        /\ calls[c].rid = calls[d].rid
        /\ calls[c].st = "thrown"
        /\ calls[d].st = "returned"
        /\ calls[d].found \in {"none", "closed"}

\* C4: when the write of a tick's flush fails, the room's needsPersist flag is
\* set afterwards.
C4_FailedFlushLeavesDirty ==
    [][\A w \in writes :
          (w.kind = "tick" /\ WriteFail(w)) => engines'[w.inst].needsPersist]_vars

\* A tick's flush of the room of entry i starts: a write of its current
\* snapshot goes in flight.
FlushStarted(i) ==
    \E w \in NewWrites : w.inst = i /\ w.kind = "tick" /\ w.snap = engines[i].doc

\* The second half of C5: a flush by the timer starts only for a registry
\* entry whose needsPersist is set.
OnlyDirtyFlushed ==
    \A w \in NewWrites :
        w.kind = "tick" => (w.inst \in Registered /\ engines[w.inst].needsPersist)

\* C5 as stated: at a tick every room whose needsPersist is set, in the
\* registry or not, has a flush started and the flag cleared, and only dirty
\* rooms are flushed.
C5_Original ==
    [][/\ Tick => \A i \in EngineIds :
                     engines[i].needsPersist
                     => (FlushStarted(i) /\ ~engines'[i].needsPersist)
       /\ OnlyDirtyFlushed]_vars

\* C5 as amended: at a tick every room that is a registry entry and whose
\* needsPersist is set has a flush started and the flag cleared; rooms that
\* are no longer registry entries are left as they are; only dirty rooms are
\* flushed.
C5_DirtyEntriesFlushed ==
    [][/\ Tick => \A i \in EngineIds :
                     IF i \in Registered
                     THEN /\ ~engines'[i].needsPersist
                          /\ engines[i].needsPersist <=> FlushStarted(i)
                     ELSE engines'[i] = engines[i] /\ ~FlushStarted(i)
       /\ OnlyDirtyFlushed]_vars

\* A tick has flushed a dirty registry entry: its write is in flight and its
\* flag is clear.
C5_Witness ==
    \E w \in writes :
        /\ w.kind = "tick"
        /\ w.inst \in Registered
        /\ ~engines[w.inst].needsPersist
        /\ w.snap = engines[w.inst].doc

\* C6: a room is Closed only after its final snapshot write has completed: no
\* closed room has its final write still in flight.
C6_ClosedAfterFinalWrite ==
    \A i \in EngineIds :
        isClosed(i) => ~\E w \in writes : w.inst = i /\ w.kind = "final"

\* C7: a removal that leaves no session starts exactly one final write of
\* the room's snapshot and closes the engine; a removal that leaves a session
\* starts no write and does not close; final writes and closes happen at no
\* other step.
C7_Step ==
    /\ \A i \in EngineIds :
          engines'[i].numSessions < engines[i].numSessions =>
              IF engines'[i].numSessions = 0
              THEN /\ NewWrites = {FinalWrite(i)}
                   /\ writes \subseteq writes'
                   /\ engines'[i].closed
              ELSE /\ writes' = writes
                   /\ ~engines'[i].closed
    /\ \A w \in NewWrites :
          w.kind = "final" =>
              (engines[w.inst].numSessions = 1 /\ engines'[w.inst].numSessions = 0)
    /\ \A i \in EngineIds :
          (~engines[i].closed /\ engines'[i].closed) =>
              (engines[i].numSessions = 1 /\ engines'[i].numSessions = 0)

C7_FinalWriteThenClose == [][C7_Step]_vars

\* Two sessions were connected to one room; the first removal left one, the
\* second left none: the room is closed and its final write is in flight.
C7_Witness ==
    \E i \in EngineIds :
        /\ isClosed(i)
        /\ FinalWrite(i) \in writes
        /\ Cardinality({c \in CallIds : calls[c].st = "connected" /\ calls[c].res = i}) >= 2

\* C8: a tick removes exactly the registry entries whose room is closed, and
\* no step removes an entry of a room that is not closed.
C8_ReapsExactlyClosed ==
    [][/\ Tick => rooms' = [r \in RoomIds |->
                              IF rooms[r] # 0 /\ isClosed(rooms[r]) THEN 0 ELSE rooms[r]]
       /\ \A r \in RoomIds :
             (rooms[r] # 0 /\ rooms'[r] = 0) => isClosed(rooms[r])]_vars

\* A tick removed the entry of a closed room and kept the entry of an open
\* room.
C8_Witness ==
    /\ \E i \in EngineIds : isClosed(i) /\ rooms[engines[i].id] = 0
    /\ \E r \in RoomIds : rooms[r] # 0 /\ ~isClosed(rooms[r])

(* --------------------------- SyncRoom (index.ts) ------------------------ *)

\* Map.has(key) on the sockets map.
HasKey(m, sid) == \E j \in 1..Len(m) : m[j].sid = sid

\* The keys of the sockets map.
Attached == {sockets[j].sid : j \in 1..Len(sockets)}

\* Map.get(key) on a sockets map that has the key.
SocketOf(m, sid) == m[CHOOSE j \in 1..Len(m) : m[j].sid = sid].sk

\* Map.set(key, value): a present key keeps its place, a new key goes last.
MapSet(m, sid, k) ==
    IF HasKey(m, sid)
    THEN [j \in 1..Len(m) |-> IF m[j].sid = sid THEN [sid |-> sid, sk |-> k] ELSE m[j]]
    ELSE Append(m, [sid |-> sid, sk |-> k])

\* Map.delete(key).
MapDelete(m, sid) == SelectSeq(m, LAMBDA e : e.sid # sid)

\* socket.send(data) on socket k fails when its connection is not open.
SendFails(k) == sock[k].st # "open"

\* A broadcast loop whose send puts the message ahead of what the socket
\* was sent before.
RECURSIVE BroadcastFromPrepend(_, _, _, _)
BroadcastFromPrepend(j, fromSessionId, message, ib) ==
    IF j > Len(sockets) THEN [inbox |-> ib, threw |-> FALSE]
    ELSE IF sockets[j].sid = fromSessionId
         THEN BroadcastFromPrepend(j + 1, fromSessionId, message, ib)
         ELSE IF SendFails(sockets[j].sk)
              THEN [inbox |-> ib, threw |-> TRUE]
              ELSE BroadcastFromPrepend(j + 1, fromSessionId, message,
                       [ib EXCEPT ![sockets[j].sk] = <<message>> \o @])

\* The for-loop of broadcast from entry j on: the inboxes after it, and
\* whether a send threw (which ends the loop).
RECURSIVE BroadcastFrom(_, _, _, _)
BroadcastFrom(j, fromSessionId, message, ib) ==
    IF j > Len(sockets) THEN [inbox |-> ib, threw |-> FALSE]
    ELSE IF sockets[j].sid = fromSessionId
         THEN BroadcastFrom(j + 1, fromSessionId, message, ib)
         ELSE IF SendFails(sockets[j].sk)
              THEN [inbox |-> ib, threw |-> TRUE]
              ELSE BroadcastFrom(j + 1, fromSessionId, message,
                       [ib EXCEPT ![sockets[j].sk] = Append(@, message)])

broadcast(fromSessionId, message) == BroadcastFrom(1, fromSessionId, message, inbox)

\* The inboxes of the model have room for one more broadcast.
RECURSIVE TotalInbox(_)
TotalInbox(k) == IF k = 0 THEN 0 ELSE Len(inbox[k]) + TotalInbox(k - 1)

InboxRoom == TotalInbox(MaxSockets) < MaxInbox

\* SyncRoom.connect(sessionId, socket) with a socket not connected before
\* (sockets are numbered in the order they connect).
connect(sid, k) ==
    /\ sock[k].st = "new"
    /\ \A j \in 1..(k - 1) : sock[j].st # "new"
    /\ sockets' = MapSet(sockets, sid, k)
    /\ sock' = [sock EXCEPT ![k] = [st |-> "open", sid |-> sid]]
    /\ UNCHANGED <<presence, inbox, ret, serverVars>>

\* The handler connect registered with socket.onMessage runs for a frame.
onMessage(k, msg) ==
    /\ sock[k].st = "open"
    /\ InboxRoom
    /\ inbox' = broadcast(sock[k].sid, msg).inbox
    /\ UNCHANGED <<sockets, presence, sock, ret, serverVars>>

\* The connection of socket k ends; its close handler has not run yet.
Terminate(k) ==
    /\ sock[k].st = "open"
    /\ sock' = [sock EXCEPT ![k].st = "dead"]
    /\ UNCHANGED <<sockets, presence, inbox, ret, serverVars>>

\* The handler connect registered with socket.onClose runs.
onClose(k) ==
    /\ sock[k].st = "dead"
    /\ sockets' = MapDelete(sockets, sock[k].sid)
    /\ presence' = [x \in DOMAIN presence \ {sock[k].sid} |-> presence[x]]
    /\ sock' = [sock EXCEPT ![k].st = "closed"]
    /\ UNCHANGED <<inbox, ret, serverVars>>

\* JSON.stringify({type: "presence", sessionId, data}): the string that
\* carries the three values in this order.
PresenceMessage(sid, data) == <<"presence", sid, data>>

\* Variant of updatePresence that keeps a record only for a session that is
\* in the sockets map.
updatePresenceAttachedOnly(sid, data) ==
    /\ InboxRoom
    /\ presence' = IF sid \in Attached
                   THEN [x \in DOMAIN presence \cup {sid} |->
                            IF x = sid THEN data ELSE presence[x]]
                   ELSE presence
    /\ inbox' = broadcast(sid, PresenceMessage(sid, data)).inbox
    /\ UNCHANGED <<sockets, sock, ret, serverVars>>

\* SyncRoom.updatePresence(sessionId, data)
updatePresence(sid, data) ==
    /\ InboxRoom
    /\ presence' = [x \in DOMAIN presence \cup {sid} |->
                       IF x = sid THEN data ELSE presence[x]]
    /\ inbox' = broadcast(sid, PresenceMessage(sid, data)).inbox
    /\ UNCHANGED <<sockets, sock, ret, serverVars>>

\* Map.get(key) on a presence Map: the value, or undefined.
PresenceGet(m, sid) == IF sid \in DOMAIN m THEN m[sid] ELSE Undefined

\* Map.set(key, value) on a presence Map.
PresenceSet(m, sid, data) ==
    [x \in DOMAIN m \cup {sid} |-> IF x = sid THEN data ELSE m[x]]

\* Map.delete(key) on a presence Map.
PresenceDelete(m, sid) == [x \in DOMAIN m \ {sid} |-> m[x]]

\* SyncRoom.getPresence(sessionId)
getPresence(sid) ==
    /\ ret' = [op |-> "getPresence", val |-> PresenceGet(presence, sid),
               ref |-> "own", map |-> <<>>, mutated |-> FALSE]
    /\ UNCHANGED <<sockets, presence, sock, inbox, serverVars>>

\* Variant of getAllPresence that returns this.presence itself.
getAllPresenceAlias ==
    /\ ret' = [op |-> "getAllPresence", val |-> Undefined,
               ref |-> "room", map |-> <<>>, mutated |-> FALSE]
    /\ UNCHANGED <<sockets, presence, sock, inbox, serverVars>>

\* SyncRoom.getAllPresence(): new Map(this.presence)
getAllPresence ==
    /\ ret' = [op |-> "getAllPresence", val |-> Undefined,
               ref |-> "own", map |-> presence, mutated |-> FALSE]
    /\ UNCHANGED <<sockets, presence, sock, inbox, serverVars>>

\* The entries of the Map the caller of getAllPresence holds.
Returned == IF ret.ref = "room" THEN presence ELSE ret.map

\* The caller of getAllPresence adds or replaces an entry of the Map it got.
ClientSet(sid, data) ==
    /\ ret.op = "getAllPresence"
    /\ PresenceGet(Returned, sid) # data
    /\ IF ret.ref = "room"
       THEN /\ presence' = PresenceSet(presence, sid, data)
            /\ ret' = [ret EXCEPT !.mutated = TRUE]
       ELSE /\ presence' = presence
            /\ ret' = [ret EXCEPT !.map = PresenceSet(@, sid, data),
                                  !.mutated = TRUE]
    /\ UNCHANGED <<sockets, sock, inbox, serverVars>>

\* The caller of getAllPresence deletes an entry of the Map it got.
ClientDelete(sid) ==
    /\ ret.op = "getAllPresence"
    /\ sid \in DOMAIN Returned
    /\ IF ret.ref = "room"
       THEN /\ presence' = PresenceDelete(presence, sid)
            /\ ret' = [ret EXCEPT !.mutated = TRUE]
       ELSE /\ presence' = presence
            /\ ret' = [ret EXCEPT !.map = PresenceDelete(@, sid),
                                  !.mutated = TRUE]
    /\ UNCHANGED <<sockets, sock, inbox, serverVars>>

NextRoom ==
    \/ \E sid \in ConnectIds, k \in SocketIds : connect(sid, k)
    \/ \E k \in SocketIds, msg \in Msgs : onMessage(k, msg)
    \/ \E k \in SocketIds : Terminate(k)
    \/ \E k \in SocketIds : onClose(k)
    \/ \E sid \in SessionIds, data \in Payloads : updatePresence(sid, data)

SpecRoom == Init /\ [][NextRoom]_vars

\* The room while its clients send no frames: sessions come and go and
\* presence is updated.
NextAttend ==
    \/ \E sid \in ConnectIds, k \in SocketIds : connect(sid, k)
    \/ \E k \in SocketIds : Terminate(k)
    \/ \E k \in SocketIds : onClose(k)
    \/ \E sid \in SessionIds, data \in Payloads : updatePresence(sid, data)

SpecAttend == Init /\ [][NextAttend]_vars

\* The presence API of a room and its callers, while no socket is connected.
NextPresence ==
    \/ \E sid \in SessionIds, data \in Payloads : updatePresence(sid, data)
    \/ \E sid \in SessionIds : getPresence(sid)
    \/ getAllPresence
    \/ \E sid \in SessionIds, data \in Payloads : ClientSet(sid, data)
    \/ \E sid \in SessionIds : ClientDelete(sid)

SpecPresence == Init /\ [][NextPresence]_vars

(* -------------------------- properties of SyncRoom ---------------------- *)

\* C9: connect with a session id that is already attached is rejected and
\* leaves the first connection as it was: the sockets map (the first socket
\* under that id) and the presence map do not change.
C9_DuplicateConnectRejected ==
    [][\A sid \in SessionIds : \A k \in SocketIds :
          (connect(sid, k) /\ sid \in Attached)
          => (sockets' = sockets /\ presence' = presence)]_vars

\* The session ids whose socket is connected and whose close handler has not
\* run.
NotYetClosed == {sock[k].sid : k \in {j \in SocketIds : sock[j].st \in {"open", "dead"}}}

\* C10: the sockets map holds exactly the session ids whose connected socket
\* has not yet closed.
C10_RegistryMatchesSockets == Attached = NotYetClosed

\* The entries of the sockets map a broadcast from fromSessionId sends to.
Destinations(fromSessionId) ==
    {j \in 1..Len(sockets) : sockets[j].sid # fromSessionId}

\* What C11 asks of one broadcast in which the send to some destination
\* throws: every destination whose send works receives the message, nothing
\* is thrown out of broadcast, and each failing destination leaves the
\* sockets map.
SendFailureContained(fromSessionId, message) ==
    (\E j \in Destinations(fromSessionId) : SendFails(sockets[j].sk))
    => /\ \A j \in Destinations(fromSessionId) :
              ~SendFails(sockets[j].sk)
              => inbox'[sockets[j].sk] = Append(inbox[sockets[j].sk], message)
       /\ ~broadcast(fromSessionId, message).threw
       /\ \A j \in Destinations(fromSessionId) :
              SendFails(sockets[j].sk) => sockets[j].sid \notin Attached'

\* C11: when the send to one destination throws during a broadcast, the
\* message still reaches every other destination, the error does not leave
\* broadcast (to the message handler or to updatePresence), and the failing
\* destination is detached from the room.
C11_SendFailureContained ==
    [][/\ \A k \in SocketIds : \A msg \in Msgs :
             onMessage(k, msg) => SendFailureContained(sock[k].sid, msg)
       /\ \A sid \in SessionIds : \A data \in Payloads :
             updatePresence(sid, data)
             => SendFailureContained(sid, PresenceMessage(sid, data))]_vars

\* The sockets a broadcast from fromSessionId owes one send: those
\* registered in the sockets map under another session id.
Owed(fromSessionId) == {sockets[j].sk : j \in Destinations(fromSessionId)}

\* One broadcast sent message exactly once to every owed socket whose send
\* works and to no other socket.
SentOnceToOthers(fromSessionId, message) ==
    \A q \in SocketIds :
        IF q \in Owed(fromSessionId)
        THEN SendFails(q) \/ inbox'[q] = Append(inbox[q], message)
        ELSE inbox'[q] = inbox[q]

\* C12: a message received from session A, and a presence update made for
\* A, is sent exactly once to every session attached at that moment other
\* than A, and never to A itself or to a session that has detached.
C12_SentOnceToOthers ==
    [][/\ \A k \in SocketIds : \A msg \in Msgs :
             onMessage(k, msg) => SentOnceToOthers(sock[k].sid, msg)
       /\ \A sid \in SessionIds : \A data \in Payloads :
             updatePresence(sid, data)
             => SentOnceToOthers(sid, PresenceMessage(sid, data))]_vars

\* Sequence s is an initial part of sequence t.
IsPrefix(s, t) == Len(s) <= Len(t) /\ SubSeq(t, 1, Len(s)) = s

C14_LiveRoomNotDelayed ==
    \A c \in CallIds :
        (calls[c].st = "queued" /\ HasOpenRoom(calls[c].rid))
        => ~\E d \in CallIds :
               /\ d < c
               /\ calls[d].st = "reading"
               /\ calls[d].rid # calls[c].rid

(* ----------------------- properties of the presence API ----------------- *)

\* C15: getPresence(s) right after updatePresence(s, p) returns p, whether
\* or not s is attached, and keeps returning it until the next update or
\* close for s; an update adds or replaces the entry of its own session id
\* only, so getAllPresence holds exactly one entry per session id updated,
\* mapped to that session's most recent payload.
C15_PresenceHoldsLatest ==
    [][(presence' # presence \/ inbox' # inbox)
       => /\ \A sid \in SessionIds : \A data \in Payloads :
                updatePresence(sid, data)
                => /\ PresenceGet(presence', sid) = data
                   /\ DOMAIN presence' = DOMAIN presence \cup {sid}
                   /\ \A x \in DOMAIN presence \ {sid} : presence'[x] = presence[x]
          /\ \A sid \in SessionIds :
                PresenceGet(presence', sid) # PresenceGet(presence, sid)
                => \/ \E data \in Payloads : updatePresence(sid, data)
                   \/ \E k \in SocketIds : onClose(k) /\ sock[k].sid = sid]_vars

\* No socket has closed, and the presence map holds the payloads of an
\* attached session and of a session that never connected.
C15_Witness ==
    /\ \A k \in SocketIds : sock[k].st \in {"new", "open"}
    /\ "a" \in Attached
    /\ "c" \notin Attached
    /\ DOMAIN presence = {"a", "c"}
    /\ PresenceGet(presence, "a") = "p2"
    /\ PresenceGet(presence, "c") = "p1"

\* The session ids some socket was attached under and whose close handler
\* has run, and that are not in the sockets map now.
Departed ==
    {sock[k].sid : k \in {j \in SocketIds : sock[j].st = "closed"}} \ Attached

\* C16: a presence record lives only as long as its session: the close
\* handler removes the record together with the registration, and the
\* presence map never holds a record for a session id that was attached and
\* has detached without attaching again.
C16_PresenceEndsWithSession ==
    /\ [](\A sid \in Departed : sid \notin DOMAIN presence)
    /\ [][\A k \in SocketIds :
             onClose(k) => /\ sock[k].sid \notin Attached'
                           /\ sock[k].sid \notin DOMAIN presence']_vars

\* The state of the room.
roomState == <<sockets, presence, sock, inbox>>

\* C17: getPresence and getAllPresence change no room state, and the map
\* getAllPresence returns is a copy: adding, replacing or deleting entries
\* in it leaves the room's presence map, and so the result of every later
\* getPresence and getAllPresence call, as it was.
C17_ReadsPureAndCopied ==
    [][/\ \A sid \in SessionIds : getPresence(sid) => UNCHANGED roomState
       /\ getAllPresence => (UNCHANGED roomState /\ Returned' = presence)
       /\ \A sid \in SessionIds : \A data \in Payloads :
             ClientSet(sid, data) => UNCHANGED roomState
       /\ \A sid \in SessionIds :
             ClientDelete(sid) => UNCHANGED roomState]_vars

\* The caller changed the map it got from getAllPresence, which now differs
\* from the room's presence map: an entry replaced, one added and one
\* deleted.
C17_Witness ==
    /\ ret.op = "getAllPresence"
    /\ ret.mutated
    /\ DOMAIN presence = {"a", "b"}
    /\ DOMAIN Returned = {"a", "c"}
    /\ Returned["a"] # presence["a"]

(* ----------------------- properties of the flush cycle ------------------ *)

\* What C18 says of every step but the tick: a data change sets the flag
\* (and, the flag being set already, leaves it set and changes nothing but
\* the document); the completion of a write, successful or not, changes no
\* room; and the flag is cleared only by a tick that starts a flush of the
\* room's current snapshot.
C18_FlagKept ==
    /\ \A i \in EngineIds :
          onDataChangeAgain(i)
          => /\ engines'[i].needsPersist
             /\ engines[i].needsPersist
                => engines' = [engines EXCEPT ![i].doc = @ + 1]
    /\ \A w \in writes :
          (WriteOk(w) \/ WriteFail(w)) => (engines' = engines /\ rooms' = rooms)
    /\ \A i \in EngineIds :
          (engines[i].needsPersist /\ ~engines'[i].needsPersist)
          => (Tick /\ FlushStarted(i))

\* A tick's flush of the room of entry i is in flight, and the document has
\* changed since its snapshot was taken.
ChangedDuringFlush(i) ==
    /\ engines[i].needsPersist
    /\ \E w \in writes : w.inst = i /\ w.kind = "tick" /\ w.snap < engines[i].doc

\* C18 as stated: a change that arrives while a flush of the room is in
\* flight is kept by the flag through the completion of that flush, and the
\* next tick starts a flush of the room's current snapshot.
C18_Original ==
    [][/\ C18_FlagKept
       /\ Tick => \A i \in EngineIds : ChangedDuringFlush(i) => FlushStarted(i)]_vars

\* C18 as amended: a room that is not closed is a registry entry, the flag
\* is kept as stated, and at the next tick every registry entry whose flag
\* is set has a flush of its current snapshot started.
C18_ChangeDuringFlushKept ==
    /\ [](\A i \in EngineIds : ~isClosed(i) => i \in Registered)
    /\ [][/\ C18_FlagKept
          /\ Tick => \A i \in Registered :
                         engines[i].needsPersist => FlushStarted(i)]_vars

\* A change arrived while a tick's flush was in flight, and the next tick
\* started a flush of the snapshot with that change: both writes are in
\* flight and the flag is clear.
C18_Witness ==
    \E i \in EngineIds : \E w1 \in writes : \E w2 \in writes :
        /\ w1.inst = i /\ w1.kind = "tick"
        /\ w2.inst = i /\ w2.kind = "tick"
        /\ w1.snap < w2.snap
        /\ w2.snap = engines[i].doc
        /\ ~engines[i].needsPersist

\* C19: a flush that fails or takes arbitrarily long does not keep the tick
\* from the other registry entries: the tick leaves every write in flight
\* where it is, starts the flush of every dirty entry and removes every
\* closed entry in the same step, and a failed write changes nothing but
\* its own disappearance (no error reaches the tick, a room or a caller).
C19_TickScansEveryEntry ==
    [][/\ Tick => /\ writes \subseteq writes'
                  /\ \A i \in Registered :
                         engines[i].needsPersist => FlushStarted(i)
                  /\ \A r \in RoomIds :
                         (rooms[r] # 0 /\ isClosed(rooms[r])) => rooms'[r] = 0
       /\ \A w \in writes :
             WriteFail(w) => /\ writes' = writes \ {w}
                             /\ UNCHANGED <<rooms, engines, calls, disk>>]_vars

\* Flushes started by ticks are in flight for two different rooms.
C19_Witness ==
    \E w1 \in writes : \E w2 \in writes :
        /\ w1.kind = "tick"
        /\ w2.kind = "tick"
        /\ w1.rid # w2.rid

\* C20: a room created for a roomId after the previous room for it closed
\* is restored from that room's final snapshot: when the snapshot read of
\* the new creation completes, the final write of the closed room is not
\* still in flight, so the read never sees storage from before that write.
C20_RestoredAfterFinalWrite ==
    [][\A c \in CallIds :
          ReadOk(c) => ~\E w \in writes :
                           w.rid = calls[c].rid /\ w.kind = "final"]_vars

\* The call has resolved or rejected.
Settled(c) == c \in CallIds /\ calls[c].st \in {"returned", "connected", "thrown"}

\* What C21 says of one step: a call leaves the queue only by running its
\* own step, whatever the calls before it ended with; the error of a step
\* is the error of that step's own read; and a call rejects exactly when
\* its own step ended with an error, resolving with the room of its roomId
\* otherwise.
C21_Step ==
    \A c \in CallIds :
        /\ (calls[c].st = "queued" /\ calls'[c].st # "queued")
           => /\ StepStart(c)
              /\ calls'[c].found # "unset"
              /\ ~calls'[c].err
        /\ (~calls[c].err /\ calls'[c].err)
           => (calls[c].st = "reading" /\ ReadFail(c))
        /\ (calls[c].st = "settled" /\ calls'[c].st # "settled")
           => IF calls[c].err
              THEN calls'[c].st = "thrown"
              ELSE /\ calls'[c].st = "returned"
                   /\ calls'[c].res = rooms[calls[c].rid]
                   /\ calls'[c].res # 0

\* C21: a failed creation does not break the creation queue: every call
\* queued behind a rejected one or issued later runs its own step and
\* settles with its own outcome, a caller gets the error of its own step
\* only, and, every storage read terminating, every call eventually
\* resolves or rejects.
C21_QueueSurvivesFailure ==
    /\ [][C21_Step]_vars
    /\ \A c \in 1..MaxQueueCalls : (c \in CallIds) ~> Settled(c)

\* The first call rejected with its restoration error; the call queued
\* behind it for the same roomId created the room and resolved, and a later
\* call for the other roomId rejected with an error of its own.
C21_Witness ==
    /\ Len(calls) = 3
    /\ calls[1].st = "thrown"
    /\ calls[2].st = "connected" /\ calls[2].rid = calls[1].rid
    /\ calls[3].st = "thrown" /\ calls[3].rid # calls[1].rid

====
